---- MODULE Spec2Model ----
(***************************************************************************)
(* Model of sharepoint_sync.py: the comparison of two directory trees      *)
(* (compare_sharepoints) and the interactive sync command built on it.     *)
(*                                                                         *)
(* A relative path is a pair <<dir, name>> of path components; components  *)
(* are naturals, ordered as the one-character strings they stand for, so   *)
(* the order of two paths as Python strings is the lexicographic order of  *)
(* the pairs.  A tree maps the relative paths of its regular files to      *)
(* their metadata (st_mtime, st_ctime).                                    *)
(***************************************************************************)
EXTENDS Integers, FiniteSets, Sequences, TLC

\* ------------------------------------------------------------------------
\* Bounds of the model
\* ------------------------------------------------------------------------
MaxFiles == 4   \* files of the two trees together in an initial state
MaxRuns == 2    \* executions of the command in one behaviour

Dirs == {1, 2, 3, 4}
Names == {1, 2}
Times == {1, 2}
Paths == {<<d, n>> : d \in Dirs, n \in Names}

\* ------------------------------------------------------------------------
\* State
\* ------------------------------------------------------------------------
VARIABLES
    kis_dir,         \* the KIS root: [kind, parts]
    client_dir,      \* the Client root: [kind, parts]
    kis_fs,          \* regular files under the KIS root: path -> metadata
    client_fs,       \* regular files under the Client root: path -> metadata
    excluded_files,  \* profiles["excluded_files"]
    excluded_dirs,   \* profiles["excluded_dirs"]
    pc,              \* position of the running command
    kis_files,       \* compare_sharepoints: keys of kis_files
    client_files,    \* compare_sharepoints: keys of client_files
    kis_only,
    client_only,
    moved_files,     \* file name -> <<kis relative path, client relative path>>
    updated_files,   \* relative path -> side holding the latest file
    todo,            \* items the running for-loop has still to visit
    answer,          \* what click.confirm returned last
    runs,            \* number of executions started so far
    results          \* results returned so far on the trees as they are now

vars == <<kis_dir, client_dir, kis_fs, client_fs, excluded_files, excluded_dirs,
          pc, kis_files, client_files, kis_only, client_only, moved_files,
          updated_files, todo, answer, runs, results>>

fsvars == <<kis_dir, client_dir, kis_fs, client_fs, excluded_files, excluded_dirs>>

cfgvars == <<kis_dir, client_dir, excluded_files, excluded_dirs>>

locals == <<kis_files, client_files, kis_only, client_only, moved_files, updated_files>>

\* ------------------------------------------------------------------------
\* Paths
\* ------------------------------------------------------------------------
\* Path(p).name
FileName(p) == p[2]

\* file_path.parts of the absolute path root / p
Parts(root, p) == root.parts \o p

\* order of two relative paths as strings
PathLess(p, q) == p[1] < q[1] \/ (p[1] = q[1] /\ p[2] < q[2])

SeqElems(s) == {s[i] : i \in DOMAIN s}

\* ------------------------------------------------------------------------
\* compare_sharepoints
\* ------------------------------------------------------------------------
\* faulty variant: only the file name is looked up
should_exclude_name_only(root, p) == FileName(p) \in excluded_files

should_exclude(root, p) ==
    \/ FileName(p) \in excluded_files
    \/ \E excl \in excluded_dirs : excl \in SeqElems(Parts(root, p))

\* root.rglob("*") filtered by is_file() and should_exclude: nothing is found
\* under a root that is not a directory
ScanFiles(root, fs) ==
    IF root.kind = "dir"
    THEN {p \in DOMAIN fs : ~should_exclude(root, p)}
    ELSE {}

EmptyMap == [x \in {} |-> x]

Result == [kis_only |-> kis_only, client_only |-> client_only,
           moved_files |-> moved_files, updated_files |-> updated_files]

\* lines 229-244: scan both roots, take the set differences
ScanTrees ==
    /\ pc = "compare"
    /\ kis_files' = ScanFiles(kis_dir, kis_fs)
    /\ client_files' = ScanFiles(client_dir, client_fs)
    /\ kis_only' = kis_files' \ client_files'
    /\ client_only' = client_files' \ kis_files'
    /\ moved_files' = EmptyMap
    /\ updated_files' = EmptyMap
    /\ todo' = kis_only'
    /\ pc' = "detect_moved"
    /\ UNCHANGED <<fsvars, answer, runs, results>>

\* faulty variant: the whole relative path is compared instead of the base name
MatchingSamePath(file_rel_path, co) == {cf \in co : cf = file_rel_path}

\* faulty variant: the first client-only path is taken whatever its name
MatchingAnyName(file_rel_path, co) == co

\* the candidates of next(cf for cf in client_only if Path(cf).name == file_name)
Matching(file_rel_path, co) == {cf \in co : FileName(cf) = FileName(file_rel_path)}

\* what one iteration stores in moved_files
StoreMoved(mv, file_name, pair) ==
    [n \in (DOMAIN mv) \cup {file_name} |-> IF n = file_name THEN pair ELSE mv[n]]

\* faulty variant: the paired path is not removed
SetRemoveNothing(s, p) == s

\* set.remove(p)
SetRemove(s, p) == s \ {p}

\* lines 247-256: one iteration of the loop over kis_only.copy().  A set is
\* iterated in hash order, which differs from one process to the next, so the
\* path visited next and the first matching client path are any of them.
DetectMoved ==
    /\ pc = "detect_moved"
    /\ \E file_rel_path \in todo :
         /\ todo' = todo \ {file_rel_path}
         /\ IF Matching(file_rel_path, client_only) # {}
            THEN \E matching_file \in Matching(file_rel_path, client_only) :
                   /\ moved_files' = StoreMoved(moved_files, FileName(file_rel_path),
                                                <<file_rel_path, matching_file>>)
                   /\ kis_only' = SetRemove(kis_only, file_rel_path)
                   /\ client_only' = SetRemove(client_only, matching_file)
            ELSE UNCHANGED <<moved_files, kis_only, client_only>>
    /\ UNCHANGED <<fsvars, pc, kis_files, client_files, updated_files, answer, runs, results>>

\* faulty variant: >= in place of >
LatestSideOnTie(p) ==
    IF kis_fs[p].mtime >= client_fs[p].mtime THEN "KIS" ELSE "Client"

\* which side line 262-265 stores for a common path, if any
LatestSide(p) ==
    IF kis_fs[p].mtime > client_fs[p].mtime THEN "KIS"
    ELSE IF client_fs[p].mtime > kis_fs[p].mtime THEN "Client"
    ELSE "none"

\* lines 258-267: the loop over common_files, and the return
DetectUpdated ==
    /\ pc = "detect_moved"
    /\ todo = {}
    /\ LET common_files == kis_files \cap client_files
           upd == {p \in common_files : LatestSide(p) # "none"}
       IN updated_files' = [p \in upd |-> LatestSide(p)]
    /\ results' = results \cup {[Result EXCEPT !.updated_files = updated_files']}
    /\ pc' = "compared"
    /\ UNCHANGED <<fsvars, kis_files, client_files, kis_only, client_only,
                   moved_files, todo, answer, runs>>

\* compare_sharepoints called once more on the same trees; the locals of the
\* last call are gone
CompareAgain ==
    /\ pc = "compared"
    /\ pc' = "compare"
    /\ kis_files' = {} /\ client_files' = {}
    /\ kis_only' = {} /\ client_only' = {}
    /\ moved_files' = EmptyMap /\ updated_files' = EmptyMap
    /\ UNCHANGED <<fsvars, todo, answer, runs, results>>

\* ------------------------------------------------------------------------
\* sync
\* ------------------------------------------------------------------------
\* SyncProfile.validate: Path.exists() of a root
Exists(root) == root.kind # "missing"

\* lines 311-331: load the profile and validate it
Validate ==
    /\ pc = "start"
    /\ pc' = IF Exists(kis_dir) /\ Exists(client_dir) THEN "compare" ELSE "not_found"
    /\ UNCHANGED <<fsvars, locals, todo, answer, runs, results>>

\* the loops of sync, in the order of the code, and what each one visits
Phases == <<"copy_kis_only", "copy_client_only", "move", "update">>

PhaseItems(ph) ==
    CASE ph = "copy_kis_only" -> kis_only
      [] ph = "copy_client_only" -> client_only
      [] ph = "move" -> {moved_files[n][1] : n \in DOMAIN moved_files}
      [] ph = "update" -> DOMAIN updated_files

\* the first loop after loop number i that has something to visit
PhaseAfter(i) ==
    LET later == {j \in DOMAIN Phases : j > i /\ PhaseItems(Phases[j]) # {}}
    IN IF later = {} THEN "done"
       ELSE Phases[CHOOSE j \in later : \A k \in later : j <= k]

\* where the command stands once one iteration of loop number i is over
AfterItem(i, left) ==
    /\ todo' = IF left # {} THEN left
               ELSE IF PhaseAfter(i) = "done" THEN {}
               ELSE PhaseItems(PhaseAfter(i))
    /\ pc' = IF left # {} THEN Phases[i] ELSE PhaseAfter(i)

\* lines 341-356: the summary, and the return when nothing is to be done
Summary ==
    /\ pc = "compared"
    /\ IF PhaseAfter(0) = "done"
       THEN pc' = "in_sync" /\ todo' = {}
       ELSE pc' = PhaseAfter(0) /\ todo' = PhaseItems(PhaseAfter(0))
    /\ UNCHANGED <<fsvars, locals, answer, runs, results>>

\* the time at which the command runs: no file is newer
Now == CHOOSE t \in Times : \A u \in Times : u <= t

\* shutil.copy2(origin, target): the target gets the content and the
\* modification time of the origin
Copy2(from_fs, to_fs, p) ==
    [q \in (DOMAIN to_fs) \cup {p} |->
        IF q = p THEN [mtime |-> from_fs[p].mtime, ctime |-> Now] ELSE to_fs[q]]

\* shutil.move(source_path, destination_path) inside one tree: the file keeps
\* its modification time; st_ctime is kept or set to now, as the platform does
Move(fs, src, dst, ctime) ==
    [q \in ((DOMAIN fs) \ {src}) \cup {dst} |->
        IF q = dst THEN [mtime |-> fs[src].mtime, ctime |-> ctime] ELSE fs[q]]

\* lines 358-374: one iteration of the loop over kis_only.  os.makedirs
\* raises when the Client root is a regular file, and nothing catches it
CopyKisOnly ==
    /\ pc = "copy_kis_only"
    /\ \E relative_path \in todo, confirm \in BOOLEAN :
         /\ answer' = confirm
         /\ IF ~confirm
            THEN /\ AfterItem(1, todo \ {relative_path})
                 /\ UNCHANGED <<client_fs, results>>
            ELSE IF client_dir.kind # "dir"
            THEN /\ pc' = "crashed"
                 /\ UNCHANGED <<todo, client_fs, results>>
            ELSE /\ client_fs' = Copy2(kis_fs, client_fs, relative_path)
                 /\ results' = {}
                 /\ AfterItem(1, todo \ {relative_path})
    /\ UNCHANGED <<cfgvars, kis_fs, locals, runs>>

\* lines 376-393: one iteration of the loop over client_only
CopyClientOnly ==
    /\ pc = "copy_client_only"
    /\ \E relative_path \in todo, confirm \in BOOLEAN :
         /\ answer' = confirm
         /\ IF ~confirm
            THEN /\ AfterItem(2, todo \ {relative_path})
                 /\ UNCHANGED <<kis_fs, results>>
            ELSE IF kis_dir.kind # "dir"
            THEN /\ pc' = "crashed"
                 /\ UNCHANGED <<todo, kis_fs, results>>
            ELSE /\ kis_fs' = Copy2(client_fs, kis_fs, relative_path)
                 /\ results' = {}
                 /\ AfterItem(2, todo \ {relative_path})
    /\ UNCHANGED <<cfgvars, client_fs, locals, runs>>

\* faulty variant: >= in place of >
LatestIsKisOnTie(kis_rel_path, client_rel_path) ==
    kis_fs[kis_rel_path].ctime >= client_fs[client_rel_path].ctime

\* lines 411-424: the KIS file is the latest of a moved pair
LatestIsKis(kis_rel_path, client_rel_path) ==
    kis_fs[kis_rel_path].ctime > client_fs[client_rel_path].ctime

\* lines 396-482: one iteration of the loop over moved_files
MoveFile ==
    /\ pc = "move"
    /\ \E item \in todo, confirm \in BOOLEAN :
         LET kis_rel_path == moved_files[FileName(item)][1]
             client_rel_path == moved_files[FileName(item)][2]
         IN IF kis_rel_path \in DOMAIN kis_fs /\ client_rel_path \in DOMAIN client_fs
            THEN /\ answer' = confirm
                 /\ IF ~confirm
                    THEN UNCHANGED <<kis_fs, client_fs, results>>
                    ELSE IF LatestIsKis(kis_rel_path, client_rel_path)
                    THEN /\ \E c \in {client_fs[client_rel_path].ctime, Now} :
                              client_fs' = Move(client_fs, client_rel_path, kis_rel_path, c)
                         /\ results' = {}
                         /\ UNCHANGED kis_fs
                    ELSE /\ \E c \in {kis_fs[kis_rel_path].ctime, Now} :
                              kis_fs' = Move(kis_fs, kis_rel_path, client_rel_path, c)
                         /\ results' = {}
                         /\ UNCHANGED client_fs
                 /\ AfterItem(3, todo \ {item})
            ELSE /\ confirm
                 /\ AfterItem(3, todo \ {item})
                 /\ UNCHANGED <<kis_fs, client_fs, results, answer>>
    /\ UNCHANGED <<cfgvars, locals, runs>>

\* lines 486-532: one iteration of the loop over updated_files
UpdateFile ==
    /\ pc = "update"
    /\ \E rel_path \in todo, confirm \in BOOLEAN :
         /\ answer' = confirm
         /\ IF ~confirm
            THEN UNCHANGED <<kis_fs, client_fs, results>>
            ELSE IF updated_files[rel_path] = "KIS"
            THEN /\ client_fs' = Copy2(kis_fs, client_fs, rel_path)
                 /\ results' = {}
                 /\ UNCHANGED kis_fs
            ELSE /\ kis_fs' = Copy2(client_fs, kis_fs, rel_path)
                 /\ results' = {}
                 /\ UNCHANGED client_fs
         /\ AfterItem(4, todo \ {rel_path})
    /\ UNCHANGED <<cfgvars, locals, runs>>

\* the command is run once more; the locals of the last run are gone
SyncAgain ==
    /\ pc \in {"not_found", "in_sync", "done", "crashed"}
    /\ runs < MaxRuns
    /\ runs' = runs + 1
    /\ pc' = "start"
    /\ kis_files' = {} /\ client_files' = {}
    /\ kis_only' = {} /\ client_only' = {}
    /\ moved_files' = EmptyMap /\ updated_files' = EmptyMap
    /\ todo' = {}
    /\ answer' = FALSE
    /\ UNCHANGED <<fsvars, results>>

\* ------------------------------------------------------------------------
\* Initial states
\* ------------------------------------------------------------------------
Meta(MT, CT) == [mtime : MT, ctime : CT]

\* the trees of lo to hi files at paths of P
Trees(P, lo, hi, MT, CT) ==
    UNION {[S -> Meta(MT, CT)] :
             S \in {S \in SUBSET P : Cardinality(S) >= lo /\ Cardinality(S) <= hi}}

RootDir == [kind |-> "dir", parts |-> <<0>>]

InitRun ==
    /\ kis_files = {} /\ client_files = {}
    /\ kis_only = {} /\ client_only = {}
    /\ moved_files = EmptyMap /\ updated_files = EmptyMap
    /\ todo = {}
    /\ answer = FALSE
    /\ runs = 1
    /\ results = {}

\* two existing roots, no exclusion rule, at most MaxFiles files in all, any
\* modification times
InitCompare ==
    /\ kis_dir = RootDir /\ client_dir = RootDir
    /\ \E k \in 0..MaxFiles :
         /\ kis_fs \in Trees(Paths, k, k, Times, {1})
         /\ client_fs \in Trees(Paths, 0, MaxFiles - k, Times, {1})
    /\ excluded_files = {} /\ excluded_dirs = {}
    /\ pc = "compare"
    /\ InitRun

\* the trees the command starts on lie in two directories
SyncPaths == {p \in Paths : p[1] \in {1, 2}}

\* a root of any kind; only a directory holds files
Roots == [kind : {"dir", "file", "missing"}, parts : {<<0>>}]

InitSync ==
    /\ kis_dir \in Roots /\ client_dir \in Roots
    /\ \E k \in 0..MaxFiles :
         /\ kis_fs \in (IF kis_dir.kind = "dir"
                         THEN Trees(SyncPaths, k, k, Times, Times) ELSE {EmptyMap})
         /\ client_fs \in (IF client_dir.kind = "dir"
                            THEN Trees(SyncPaths, 0, MaxFiles - k, Times, Times)
                            ELSE {EmptyMap})
    /\ excluded_files = {} /\ excluded_dirs = {}
    /\ pc = "start"
    /\ InitRun

Next ==
    \/ Validate \/ ScanTrees \/ DetectMoved \/ DetectUpdated \/ Summary
    \/ CopyKisOnly \/ CopyClientOnly \/ MoveFile \/ UpdateFile \/ SyncAgain

Spec == InitSync /\ [][Next]_vars

\* two directories of any name, any exclusion rules, any files
ScanRoots == [kind : {"dir"}, parts : {<<0>>, <<1>>}]

InitScan ==
    /\ kis_dir \in ScanRoots /\ client_dir \in ScanRoots
    /\ \E k \in 0..MaxFiles :
         /\ kis_fs \in Trees(Paths, k, k, {1}, {1})
         /\ client_fs \in Trees(Paths, 0, MaxFiles - k, {1}, {1})
    /\ excluded_files \in SUBSET Names
    /\ excluded_dirs \in SUBSET Names
    /\ pc = "compare"
    /\ InitRun

\* two directories named 0 or 3; the exclusion list names one directory, 1 or 3
ExclRoots == [kind : {"dir"}, parts : {<<0>>, <<3>>}]

InitExcl ==
    /\ kis_dir \in ExclRoots /\ client_dir \in ExclRoots
    /\ \E k \in 0..MaxFiles :
         /\ kis_fs \in Trees(SyncPaths, k, k, Times, Times)
         /\ client_fs \in Trees(SyncPaths, 0, MaxFiles - k, Times, Times)
    /\ excluded_files = {} /\ excluded_dirs \in {{1}, {3}}
    /\ pc = "start"
    /\ InitRun

SpecExcl == InitExcl /\ [][Next]_vars

\* the command is run again and again, and the user confirms every proposal
SyncRepeat ==
    /\ pc \in {"not_found", "in_sync", "done", "crashed"}
    /\ pc' = "start"
    /\ kis_files' = {} /\ client_files' = {}
    /\ kis_only' = {} /\ client_only' = {}
    /\ moved_files' = EmptyMap /\ updated_files' = EmptyMap
    /\ todo' = {}
    /\ answer' = FALSE
    /\ UNCHANGED <<fsvars, runs, results>>

ConfirmedCopyKisOnly == CopyKisOnly /\ answer'
ConfirmedCopyClientOnly == CopyClientOnly /\ answer'
ConfirmedMoveFile == MoveFile /\ answer'
ConfirmedUpdateFile == UpdateFile /\ answer'

NextRepeat ==
    \/ Validate \/ ScanTrees \/ DetectMoved \/ DetectUpdated \/ Summary
    \/ ConfirmedCopyKisOnly \/ ConfirmedCopyClientOnly
    \/ ConfirmedMoveFile \/ ConfirmedUpdateFile \/ SyncRepeat

\* every run that is started goes on to its end, and a next run is started
SpecRepeat == InitExcl /\ [][NextRepeat]_vars /\ WF_vars(NextRepeat)

NextCompare == ScanTrees \/ DetectMoved \/ DetectUpdated \/ CompareAgain

SpecCompare == InitCompare /\ [][NextCompare]_vars

SpecScan == InitScan /\ [][NextCompare]_vars

\* ------------------------------------------------------------------------
\* Properties of compare_sharepoints
\* ------------------------------------------------------------------------
MovedKisPaths == {moved_files[n][1] : n \in DOMAIN moved_files}
MovedClientPaths == {moved_files[n][2] : n \in DOMAIN moved_files}
CommonFiles == kis_files \cap client_files

InCategory(c, p) ==
    CASE c = "kis_only" -> p \in kis_only
      [] c = "client_only" -> p \in client_only
      [] c = "moved" -> p \in MovedKisPaths \cup MovedClientPaths
      [] c = "updated" -> p \in DOMAIN updated_files
      [] c = "in_sync" -> p \in CommonFiles /\ kis_fs[p].mtime = client_fs[p].mtime

Reported == {"kis_only", "client_only", "moved", "updated"}

CategoriesOf(p) == {c \in Reported \cup {"in_sync"} : InCategory(c, p)}

\* C1: when compare_sharepoints returns, every scanned path of either tree is in
\* exactly one of kis_only, client_only, a pair of moved_files, the keys of
\* updated_files, or the common paths with equal modification times.
C1_PartitionExhaustive ==
    pc = "compared" =>
        \A p \in kis_files \cup client_files : Cardinality(CategoriesOf(p)) = 1

\* C2: when compare_sharepoints returns, no half of a stored moved pair is left
\* in its only-set, and no path is in two of kis_only, client_only, the moved
\* pairs and the keys of updated_files.
C2_MutuallyExclusive ==
    pc = "compared" =>
        /\ \A n \in DOMAIN moved_files :
             /\ moved_files[n][1] \notin kis_only
             /\ moved_files[n][2] \notin client_only
        /\ \A p \in Paths : Cardinality(CategoriesOf(p) \cap Reported) <= 1

C2_Witness ==
    /\ pc = "compared"
    /\ moved_files # EmptyMap
    /\ kis_only # {}
    /\ client_only # {}

\* the paths of base name n in a set of paths
Named(n, S) == {p \in S : FileName(p) = n}

Unambiguous(n) ==
    /\ Cardinality(Named(n, kis_files \ client_files)) = 1
    /\ Cardinality(Named(n, client_files \ kis_files)) = 1

\* C3: a base name carried by exactly one path present only in the KIS tree and
\* by exactly one path present only in the Client tree is stored in moved_files
\* with these two paths, and both have left the only-sets.
C3_UnambiguousMoveDetected ==
    pc = "compared" =>
        \A n \in Names : Unambiguous(n) =>
            \E p \in Named(n, kis_files \ client_files),
               s \in Named(n, client_files \ kis_files) :
                /\ n \in DOMAIN moved_files
                /\ moved_files[n] = <<p, s>>
                /\ p \notin kis_only
                /\ s \notin client_only

C3_Witness ==
    /\ pc = "compared"
    /\ \E n \in Names : Unambiguous(n)

\* C4: every entry moved_files[n] = (a, b) has base_name(a) = base_name(b) = n,
\* a scanned in the KIS tree only and b scanned in the Client tree only.
C4_MovePairingSound ==
    \A n \in DOMAIN moved_files :
        /\ FileName(moved_files[n][1]) = n
        /\ FileName(moved_files[n][2]) = n
        /\ moved_files[n][1] \in kis_files \ client_files
        /\ moved_files[n][2] \in client_files \ kis_files

C4_Witness ==
    /\ pc = "compared"
    /\ Cardinality(DOMAIN moved_files) = Cardinality(Names)

\* C5: the loop visits the KIS-only paths in sorted order, and the client path
\* it pairs with the visited one is the first of the candidates in sorted order.
C5_SortedProcessing ==
    [][\A p \in todo :
         (pc = "detect_moved" /\ pc' = "detect_moved" /\ p \notin todo') =>
            /\ \A q \in todo : ~PathLess(q, p)
            /\ \A s \in client_only \ client_only' :
                 \A c \in Matching(p, client_only) : ~PathLess(c, s)]_vars

\* C6: all the executions of compare_sharepoints on the same unchanged trees
\* return the same four collections.
C6_SameResultEveryRun == Cardinality(results) <= 1

\* C7: a common path with equal modification times is no key of updated_files;
\* with a strictly greater time on one side, updated_files names that side; and
\* only common paths are keys.
C7_UpdateTieBreak ==
    pc = "compared" =>
        /\ DOMAIN updated_files \subseteq CommonFiles
        /\ \A p \in CommonFiles :
             /\ kis_fs[p].mtime = client_fs[p].mtime => p \notin DOMAIN updated_files
             /\ kis_fs[p].mtime > client_fs[p].mtime =>
                   p \in DOMAIN updated_files /\ updated_files[p] = "KIS"
             /\ client_fs[p].mtime > kis_fs[p].mtime =>
                   p \in DOMAIN updated_files /\ updated_files[p] = "Client"

C7_Witness ==
    /\ pc = "compared"
    /\ \E p, q \in CommonFiles :
         /\ kis_fs[p].mtime = client_fs[p].mtime
         /\ client_fs[q].mtime > kis_fs[q].mtime
         /\ updated_files = [x \in {q} |-> "Client"]

\* a file the exclusion rules name: by its base name, or by a component of its
\* relative path
RuledOut(p) ==
    \/ p[2] \in excluded_files
    \/ p[1] \in excluded_dirs
    \/ p[2] \in excluded_dirs

\* C8: a file whose base name is an excluded file name, or one of whose path
\* components is an excluded directory name, is in neither scanned set and in
\* none of kis_only, client_only, moved_files and updated_files.
C8_ExclusionSound ==
    \A p \in Paths : RuledOut(p) =>
        /\ p \notin kis_files \cup client_files
        /\ CategoriesOf(p) \cap Reported = {}

C8_Witness ==
    /\ pc = "compared"
    /\ kis_only # {}
    /\ \E p \in DOMAIN kis_fs : p[2] \in excluded_files
    /\ \E p \in DOMAIN client_fs : p[1] \in excluded_dirs /\ p[2] \notin excluded_files

\* C12: the scanned set of a root is exactly the set of its regular files that
\* the exclusion rules do not name by base name or by a root-relative path
\* component; the names of the root and of its ancestors play no part.
C12_ScannerComplete ==
    pc # "compare" =>
        /\ kis_files = {p \in DOMAIN kis_fs : ~RuledOut(p)}
        /\ client_files = {p \in DOMAIN client_fs : ~RuledOut(p)}

\* ------------------------------------------------------------------------
\* Properties of sync
\* ------------------------------------------------------------------------
\* C9: with a root that is missing or no directory the command ends with the
\* not-found error before compare_sharepoints runs.
C9_InvalidRootFatal ==
    (kis_dir.kind # "dir" \/ client_dir.kind # "dir") => pc \in {"start", "not_found"}

\* fs2 is fs with the file at src relocated to dst and nothing else changed
Relocated(fs, fs2, src, dst) ==
    /\ DOMAIN fs2 = ((DOMAIN fs) \ {src}) \cup {dst}
    /\ fs2[dst].mtime = fs[src].mtime
    /\ \A q \in (DOMAIN fs) \ {src, dst} : fs2[q] = fs[q]

NothingToDo ==
    /\ kis_only = {} /\ client_only = {}
    /\ moved_files = EmptyMap /\ updated_files = EmptyMap

\* C11: when the command is run again and again and every proposal is
\* confirmed, from some run on compare_sharepoints returns four empty
\* collections in every run.
C11_Convergence == <>[](pc = "compared" => NothingToDo)

\* the loop item p is the one this step has visited
Visited(p) == p \in todo /\ (pc' # pc \/ p \notin todo')

\* C13: within a run, a confirmed copy of a KIS-only or Client-only file and a
\* confirmed move of a moved-pair file write to a path at which the destination
\* tree holds no file at that moment.
C13_NoClobber ==
    [][\A p \in todo :
         (Visited(p) /\ answer' /\ pc' # "crashed") =>
            /\ pc = "copy_kis_only" => p \notin DOMAIN client_fs
            /\ pc = "copy_client_only" => p \notin DOMAIN kis_fs
            /\ pc = "move" =>
                 /\ client_fs' # client_fs =>
                       moved_files[FileName(p)][1] \notin DOMAIN client_fs
                 /\ kis_fs' # kis_fs =>
                       moved_files[FileName(p)][2] \notin DOMAIN kis_fs]_vars

====
